---- MODULE Spec2Model ----
(***************************************************************************)
(* The Redis -> socket.io bridge of src/server.js as a state machine.      *)
(*                                                                         *)
(* One action per callback of the event loop: the redis.subscribe          *)
(* callback, the redis 'message' handler, the io 'connection' handler and  *)
(* the per-socket join/leave/disconnect handlers.  Every callback runs to  *)
(* completion, so every action is one atomic step.                         *)
(*                                                                         *)
(* A raw broker message is a sequence of JSON tokens; JSONparse is a       *)
(* parser for the fragment "scalar | flat object of scalars".  Raw         *)
(* messages are drawn from RawMessages, all inside that fragment or        *)
(* malformed.                                                              *)
(***************************************************************************)
EXTENDS Integers, Sequences, FiniteSets, TLC

\* ------------------------------------------------------------------ bounds
MaxConns == 2     \* connections ever accepted
MaxMsgs  == 2     \* broker messages ever handled
MaxTime  == 1     \* largest value the clock is read at
MaxSteps == 7     \* callbacks ever run

\* --------------------------------------------------------------- constants
Channels == {"inventory", "inventory-alerts", "orders"}
Rooms    == {"inventory-updates", "inventory-alerts"}
Ids      == 1..MaxConns

\* --------------------------------------------------------- JavaScript values
Str(s)    == [t |-> "string", s |-> s]
Num(n)    == [t |-> "number", n |-> n]
Null      == [t |-> "null"]
Undefined == [t |-> "undefined"]
Obj(f)    == [t |-> "object", f |-> f]
NoProps   == [k \in {} |-> Undefined]

\* ToBoolean(v) = false, for the values JSONparse yields
Falsy(v) ==
    \/ v.t \in {"undefined", "null"}
    \/ v.t = "string" /\ v.s = ""
    \/ v.t = "number" /\ v.n = 0

\* a || b
OrElse(a, b) == IF Falsy(a) THEN b ELSE a

\* variant: Throws for a handler that reads data?.message
ThrowsNever(data) == FALSE

\* data.k throws a TypeError when data is null or undefined
Throws(data) == data.t \in {"null", "undefined"}

\* data.k for a value that has properties or is a primitive wrapper
Get(data, k) ==
    IF data.t = "object" /\ k \in DOMAIN data.f THEN data.f[k] ELSE Undefined

\* variant: the spread skips falsy properties
OwnPropsTruthy(data) ==
    IF data.t = "object"
    THEN [k \in {j \in DOMAIN data.f : ~Falsy(data.f[j])} |-> data.f[k]]
    ELSE NoProps

\* the own enumerable properties an object spread ...data copies
\* (none for a number, a boolean, null)
OwnProps(data) == IF data.t = "object" THEN data.f ELSE NoProps

\* ------------------------------------------------------------- JSON tokens
LB       == [tok |-> "{"]
RB       == [tok |-> "}"]
COLON    == [tok |-> ":"]
COMMA    == [tok |-> ","]
TStr(s)  == [tok |-> "string", s |-> s]
TNum(n)  == [tok |-> "number", n |-> n]
TNull    == [tok |-> "null"]
TWord(w) == [tok |-> "word", w |-> w]

IsScalarTok(k) == k.tok \in {"string", "number", "null"}

ScalarValue(k) ==
    CASE k.tok = "string" -> Str(k.s)
      [] k.tok = "number" -> Num(k.n)
      [] k.tok = "null"   -> Null

SyntaxError == [ok |-> FALSE]
Parsed(v)   == [ok |-> TRUE, value |-> v]

\* members of an object from token i on; a repeated key keeps its last value
RECURSIVE ParseMembers(_, _, _)
ParseMembers(toks, i, acc) ==
    IF i + 3 > Len(toks) THEN SyntaxError
    ELSE IF \/ toks[i].tok # "string"
            \/ toks[i + 1].tok # ":"
            \/ ~IsScalarTok(toks[i + 2])
    THEN SyntaxError
    ELSE LET acc2 == (toks[i].s :> ScalarValue(toks[i + 2])) @@ acc
         IN  IF toks[i + 3].tok = "}"
             THEN IF i + 3 = Len(toks) THEN Parsed(Obj(acc2)) ELSE SyntaxError
             ELSE IF toks[i + 3].tok = ","
             THEN ParseMembers(toks, i + 4, acc2)
             ELSE SyntaxError

\* JSON.parse(message)
JSONparse(toks) ==
    IF Len(toks) = 0 THEN SyntaxError
    ELSE IF IsScalarTok(toks[1])
    THEN IF Len(toks) = 1 THEN Parsed(ScalarValue(toks[1])) ELSE SyntaxError
    ELSE IF toks[1].tok = "{"
    THEN IF Len(toks) = 2 /\ toks[2].tok = "}"
         THEN Parsed(Obj(NoProps))
         ELSE ParseMembers(toks, 2, NoProps)
    ELSE SyntaxError

\* ------------------------------------------------------------ raw messages
\* {"sku":"A1","qty":5}
RawItem == <<LB, TStr("sku"), COLON, TStr("A1"), COMMA,
             TStr("qty"), COLON, TNum(5), RB>>
\* {"current_count":150,"threshold":100}
RawCounts == <<LB, TStr("current_count"), COLON, TNum(150), COMMA,
               TStr("threshold"), COLON, TNum(100), RB>>
\* {"severity":"critical","type":"custom"}
RawCustom == <<LB, TStr("severity"), COLON, TStr("critical"), COMMA,
               TStr("type"), COLON, TStr("custom"), RB>>
\* {"severity":"","message":null,"timestamp":0}
RawFalsy == <<LB, TStr("severity"), COLON, TStr(""), COMMA,
              TStr("message"), COLON, TNull, COMMA,
              TStr("timestamp"), COLON, TNum(0), RB>>
\* {"message":"Low stock","timestamp":"2025-06-29T10:30:00.000Z","zone":"B"}
RawFull == <<LB, TStr("message"), COLON, TStr("Low stock"), COMMA,
             TStr("timestamp"), COLON, TStr("2025-06-29T10:30:00.000Z"), COMMA,
             TStr("zone"), COLON, TStr("B"), RB>>
\* {}
RawEmpty == <<LB, RB>>
\* null
RawNull == <<TNull>>
\* 42
RawNumber == <<TNum(42)>>
\* not json
RawText == <<TWord("not"), TWord("json")>>
\* {"sku":
RawTruncated == <<LB, TStr("sku"), COLON>>

ObjectMessages    == {RawItem, RawCounts, RawCustom, RawFalsy, RawFull, RawEmpty}
ScalarMessages    == {RawNull, RawNumber}
MalformedMessages == {RawText, RawTruncated}
RawMessages       == ObjectMessages \cup ScalarMessages \cup MalformedMessages

\* ------------------------------------------------------------------- state
VARIABLES
    sub,      \* outcome of redis.subscribe: "pending", "subscribed", "failed"
    alive,    \* FALSE once an exception has escaped a callback
    steps,    \* number of callbacks run so far
    status,   \* per socket id: "unused", "connected", "closed"
    rooms,    \* the adapter's room -> set of socket ids
    inbox,    \* per socket id, the packets written to it, in order
    emitted,  \* the emissions made by the callback that ran last
    handled,  \* number of broker messages handled so far
    errors,   \* number of console.error calls made so far
    joinRun,  \* per socket and room: join steps since the last leave (max 2)
    last      \* the callback that ran last, with its arguments

vars == <<sub, alive, steps, status, rooms, inbox, emitted, handled, errors,
          joinRun, last>>

Connected == {c \in Ids : status[c] = "connected"}

\* ------------------------------------------------------- alert enrichment
DefaultType     == "count_exceeded"
DefaultMessage  == "Item count exceeded the limit."
DefaultSeverity == "warning"

\* new Date(ms).toISOString()
ISOStrings == <<"1970-01-01T00:00:00.000Z", "1970-01-01T00:00:00.001Z",
                "1970-01-01T00:00:00.002Z", "1970-01-01T00:00:00.003Z",
                "1970-01-01T00:00:00.004Z", "1970-01-01T00:00:00.005Z">>
toISOString(ms) == Str(ISOStrings[ms + 1])

\* variant: the fields are copied without the || fallbacks
AlertDefaultsNoFallback(data, t) ==
    [k \in {"type", "message", "current_count", "threshold", "severity", "timestamp"} |->
        IF k = "type" THEN Str(DefaultType) ELSE Get(data, k)]

\* the properties written before the spread, in source order
AlertDefaults(data, t) ==
    [k \in {"type", "message", "current_count", "threshold", "severity", "timestamp"} |->
        CASE k = "type"          -> Str(DefaultType)
          [] k = "message"       -> OrElse(Get(data, "message"), Str(DefaultMessage))
          [] k = "current_count" -> Get(data, "current_count")
          [] k = "threshold"     -> Get(data, "threshold")
          [] k = "severity"      -> OrElse(Get(data, "severity"), Str(DefaultSeverity))
          [] k = "timestamp"     -> OrElse(Get(data, "timestamp"), toISOString(t))]

\* variant: the spread comes first, so the listed properties overwrite it
alertDataSpreadFirst(data, t) ==
    IF Throws(data) THEN [threw |-> TRUE]
    ELSE [threw |-> FALSE, value |-> Obj(AlertDefaults(data, t) @@ OwnProps(data))]

\* const alertData = { type: ..., ..., ...data }: the spread comes last and
\* overwrites every property data owns
alertData(data, t) ==
    IF Throws(data) THEN [threw |-> TRUE]
    ELSE [threw |-> FALSE, value |-> Obj(OwnProps(data) @@ AlertDefaults(data, t))]

\* --------------------------------------------------------------- dispatch
Emission(name, to, payload) == [name |-> name, to |-> to, payload |-> payload]
Everyone == "*"

\* variant: inventory updates go through the alert enrichment too
TryBlockEnrichesUpdates(channel, message, t) ==
    LET p == JSONparse(message) IN
    IF ~p.ok THEN [threw |-> TRUE, emits |-> <<>>]
    ELSE IF channel \in {"inventory", "inventory-alerts"}
    THEN LET a == alertData(p.value, t)
             name == IF channel = "inventory" THEN "inventory-update" ELSE "inventory-alert"
             room == IF channel = "inventory" THEN "inventory-updates" ELSE "inventory-alerts"
         IN  IF a.threw THEN [threw |-> TRUE, emits |-> <<>>]
             ELSE [threw |-> FALSE,
                   emits |-> <<Emission(name, Everyone, a.value),
                               Emission(name, room, a.value)>>]
    ELSE [threw |-> FALSE, emits |-> <<>>]

\* variant: the alert's room emission goes to the updates room
TryBlockWrongRoom(channel, message, t) ==
    LET p == JSONparse(message) IN
    IF ~p.ok THEN [threw |-> TRUE, emits |-> <<>>]
    ELSE IF channel = "inventory"
    THEN [threw |-> FALSE,
          emits |-> <<Emission("inventory-update", Everyone, p.value),
                      Emission("inventory-update", "inventory-updates", p.value)>>]
    ELSE IF channel = "inventory-alerts"
    THEN LET a == alertData(p.value, t) IN
         IF a.threw THEN [threw |-> TRUE, emits |-> <<>>]
         ELSE [threw |-> FALSE,
               emits |-> <<Emission("inventory-alert", Everyone, a.value),
                           Emission("inventory-alert", "inventory-updates", a.value)>>]
    ELSE [threw |-> FALSE, emits |-> <<>>]

\* variant: the alert record is built once per emission, the clock having
\* moved on in between
TryBlockBuildsTwice(channel, message, t) ==
    LET p == JSONparse(message) IN
    IF ~p.ok THEN [threw |-> TRUE, emits |-> <<>>]
    ELSE IF channel = "inventory"
    THEN [threw |-> FALSE,
          emits |-> <<Emission("inventory-update", Everyone, p.value),
                      Emission("inventory-update", "inventory-updates", p.value)>>]
    ELSE IF channel = "inventory-alerts"
    THEN LET a == alertData(p.value, t)
             b == alertData(p.value, t + 1)
         IN
         IF a.threw THEN [threw |-> TRUE, emits |-> <<>>]
         ELSE [threw |-> FALSE,
               emits |-> <<Emission("inventory-alert", Everyone, a.value),
                           Emission("inventory-alert", "inventory-alerts", b.value)>>]
    ELSE [threw |-> FALSE, emits |-> <<>>]

\* variant: every channel but inventory is handled as an alert
TryBlockElseAlerts(channel, message, t) ==
    LET p == JSONparse(message) IN
    IF ~p.ok THEN [threw |-> TRUE, emits |-> <<>>]
    ELSE IF channel = "inventory"
    THEN [threw |-> FALSE,
          emits |-> <<Emission("inventory-update", Everyone, p.value),
                      Emission("inventory-update", "inventory-updates", p.value)>>]
    ELSE LET a == alertData(p.value, t) IN
         IF a.threw THEN [threw |-> TRUE, emits |-> <<>>]
         ELSE [threw |-> FALSE,
               emits |-> <<Emission("inventory-alert", Everyone, a.value),
                           Emission("inventory-alert", "inventory-alerts", a.value)>>]

\* variant: the alert is announced to everyone before it is enriched
TryBlockEmitsBeforeEnrich(channel, message, t) ==
    LET p == JSONparse(message) IN
    IF ~p.ok THEN [threw |-> TRUE, emits |-> <<>>]
    ELSE IF channel = "inventory"
    THEN [threw |-> FALSE,
          emits |-> <<Emission("inventory-update", Everyone, p.value),
                      Emission("inventory-update", "inventory-updates", p.value)>>]
    ELSE IF channel = "inventory-alerts"
    THEN LET a == alertData(p.value, t) IN
         IF a.threw
         THEN [threw |-> TRUE,
               emits |-> <<Emission("inventory-alert", Everyone, p.value)>>]
         ELSE [threw |-> FALSE,
               emits |-> <<Emission("inventory-alert", Everyone, p.value),
                           Emission("inventory-alert", "inventory-alerts", a.value)>>]
    ELSE [threw |-> FALSE, emits |-> <<>>]

\* the try block of the 'message' handler: whether it threw, and the
\* emissions it made before leaving
TryBlock(channel, message, t) ==
    LET p == JSONparse(message) IN
    IF ~p.ok THEN [threw |-> TRUE, emits |-> <<>>]
    ELSE IF channel = "inventory"
    THEN [threw |-> FALSE,
          emits |-> <<Emission("inventory-update", Everyone, p.value),
                      Emission("inventory-update", "inventory-updates", p.value)>>]
    ELSE IF channel = "inventory-alerts"
    THEN LET a == alertData(p.value, t) IN
         IF a.threw THEN [threw |-> TRUE, emits |-> <<>>]
         ELSE [threw |-> FALSE,
               emits |-> <<Emission("inventory-alert", Everyone, a.value),
                           Emission("inventory-alert", "inventory-alerts", a.value)>>]
    ELSE [threw |-> FALSE, emits |-> <<>>]

\* variant: the exception escapes the handler
Rethrow == FALSE

\* the catch block logs and returns: the process stays alive
CatchBlock == TRUE

\* variant: the room filter is ignored
RecipientsEveryone(to) == Connected

\* io.emit reaches every connected socket, io.to(room).emit the room's members
Recipients(to) == IF to = Everyone THEN Connected ELSE rooms[to]

Packet(e, seq) == [seq |-> seq, name |-> e.name, to |-> e.to]

\* variant: the newest packet overtakes the ones written before it
WriteFirst(box, pkt) == <<pkt>> \o box

\* packets are written to a socket in emission order
Write(box, pkt) == Append(box, pkt)

RECURSIVE Deliver(_, _, _)
Deliver(boxes, emits, seq) ==
    IF emits = <<>> THEN boxes
    ELSE LET e == Head(emits)
             next == [c \in Ids |->
                        IF c \in Recipients(e.to)
                        THEN Write(boxes[c], Packet(e, seq))
                        ELSE boxes[c]]
         IN  Deliver(next, Tail(emits), seq)

\* variant: a join of a member toggles the membership off
AddMemberToggle(members, c) ==
    IF c \in members THEN members \ {c} ELSE members \cup {c}

\* variant: a leave empties the room
RemoveMemberClears(members, c) == {}

\* variant: a leave of a non-member adds the socket
RemoveMemberToggle(members, c) ==
    IF c \in members THEN members \ {c} ELSE members \cup {c}

\* socket.join(room) / socket.leave(room) on the adapter's member set
AddMember(members, c)    == members \cup {c}
RemoveMember(members, c) == members \ {c}

\* ----------------------------------------------------------------- actions
Init ==
    /\ sub = "pending"
    /\ alive = TRUE
    /\ steps = 0
    /\ status = [c \in Ids |-> "unused"]
    /\ rooms = [r \in Rooms |-> {}]
    /\ inbox = [c \in Ids |-> <<>>]
    /\ emitted = <<>>
    /\ handled = 0
    /\ errors = 0
    /\ joinRun = [c \in Ids |-> [r \in Rooms |-> 0]]
    /\ last = [op |-> "start"]

\* the event loop runs one callback at a time, while the process is alive
Ready == alive /\ steps < MaxSteps

\* a callback that returns normally
Returns == alive' = alive /\ steps' = steps + 1

\* redis.subscribe callback, err == null
SubscribeOk ==
    /\ Ready /\ sub = "pending"
    /\ sub' = "subscribed"
    /\ Returns
    /\ emitted' = <<>>
    /\ last' = [op |-> "subscribed"]
    /\ UNCHANGED <<status, rooms, inbox, handled, errors, joinRun>>

\* variant: the subscription error is thrown out of the callback
SubscribeFailThrows ==
    /\ Ready /\ sub = "pending"
    /\ sub' = "failed"
    /\ alive' = FALSE
    /\ steps' = steps + 1
    /\ errors' = errors
    /\ emitted' = <<>>
    /\ last' = [op |-> "subscribe-failed"]
    /\ UNCHANGED <<status, rooms, inbox, handled, joinRun>>

\* redis.subscribe callback, err != null: the error is logged, nothing else
SubscribeFail ==
    /\ Ready /\ sub = "pending"
    /\ sub' = "failed"
    /\ errors' = errors + 1
    /\ Returns
    /\ emitted' = <<>>
    /\ last' = [op |-> "subscribe-failed"]
    /\ UNCHANGED <<status, rooms, inbox, handled, joinRun>>

\* variant: the handler yields between its two emissions and a disconnect
\* of a connected socket runs in the gap
OnMessageYields(channel, message, t) ==
    /\ Ready /\ sub = "subscribed" /\ handled < MaxMsgs
    /\ LET r == TryBlock(channel, message, t)
           first == IF r.emits = <<>> THEN <<>> ELSE <<Head(r.emits)>>
           rest  == IF r.emits = <<>> THEN <<>> ELSE Tail(r.emits)
           gone  == IF Connected = {} \/ r.emits = <<>> THEN {}
                    ELSE {CHOOSE c \in Connected : TRUE}
           mid   == Deliver(inbox, first, handled + 1)
       IN
        /\ emitted' = r.emits
        /\ status' = [c \in Ids |-> IF c \in gone THEN "closed" ELSE status[c]]
        /\ rooms' = [x \in Rooms |-> rooms[x] \ gone]
        /\ inbox' = [c \in Ids |->
                        IF c \in gone THEN mid[c]
                        ELSE Deliver(mid, rest, handled + 1)[c]]
        /\ alive' = IF r.threw THEN CatchBlock ELSE alive
        /\ errors' = IF r.threw THEN errors + 1 ELSE errors
    /\ steps' = steps + 1
    /\ handled' = handled + 1
    /\ last' = [op |-> "message", channel |-> channel, message |-> message,
                at |-> t, seq |-> handled + 1]
    /\ UNCHANGED <<sub, joinRun>>

\* redis.on('message', (channel, message) => ...); t is the time new Date()
\* reads during this invocation
OnMessage(channel, message, t) ==
    /\ Ready /\ sub = "subscribed" /\ handled < MaxMsgs
    /\ LET r == TryBlock(channel, message, t) IN
        /\ emitted' = r.emits
        /\ inbox' = Deliver(inbox, r.emits, handled + 1)
        /\ alive' = IF r.threw THEN CatchBlock ELSE alive
        /\ errors' = IF r.threw THEN errors + 1 ELSE errors
    /\ steps' = steps + 1
    /\ handled' = handled + 1
    /\ last' = [op |-> "message", channel |-> channel, message |-> message,
                at |-> t, seq |-> handled + 1]
    /\ UNCHANGED <<sub, status, rooms, joinRun>>

\* variant: a new socket is sent the event of the last message handled
OnConnectionReplays(c) ==
    /\ Ready /\ status[c] = "unused"
    /\ \A d \in Ids : d < c => status[d] # "unused"
    /\ status' = [status EXCEPT ![c] = "connected"]
    /\ inbox' = [inbox EXCEPT ![c] =
                    IF handled = 0 THEN @
                    ELSE Append(@, [seq |-> handled, name |-> "inventory-update",
                                    to |-> Everyone])]
    /\ Returns
    /\ emitted' = <<>>
    /\ last' = [op |-> "connect", conn |-> c]
    /\ UNCHANGED <<sub, rooms, handled, errors, joinRun>>

\* io.on('connection', (socket) => ...): a new socket with a fresh id
OnConnection(c) ==
    /\ Ready /\ status[c] = "unused"
    /\ \A d \in Ids : d < c => status[d] # "unused"
    /\ status' = [status EXCEPT ![c] = "connected"]
    /\ Returns
    /\ emitted' = <<>>
    /\ last' = [op |-> "connect", conn |-> c]
    /\ UNCHANGED <<sub, rooms, inbox, handled, errors, joinRun>>

\* socket.on('join-inventory-updates') / socket.on('join-inventory-alerts')
OnJoin(c, room) ==
    /\ Ready /\ status[c] = "connected"
    /\ rooms' = [rooms EXCEPT ![room] = AddMember(@, c)]
    /\ joinRun' = [joinRun EXCEPT ![c][room] = IF @ < 2 THEN @ + 1 ELSE @]
    /\ Returns
    /\ emitted' = <<>>
    /\ last' = [op |-> "join", conn |-> c, room |-> room]
    /\ UNCHANGED <<sub, status, inbox, handled, errors>>

\* socket.on('leave-inventory-updates') / socket.on('leave-inventory-alerts')
OnLeave(c, room) ==
    /\ Ready /\ status[c] = "connected"
    /\ rooms' = [rooms EXCEPT ![room] = RemoveMember(@, c)]
    /\ joinRun' = [joinRun EXCEPT ![c][room] = 0]
    /\ Returns
    /\ emitted' = <<>>
    /\ last' = [op |-> "leave", conn |-> c, room |-> room, run |-> joinRun[c][room]]
    /\ UNCHANGED <<sub, status, inbox, handled, errors>>

\* variant: the closing socket stays in its rooms
OnDisconnectKeepsRooms(c) ==
    /\ Ready /\ status[c] = "connected"
    /\ status' = [status EXCEPT ![c] = "closed"]
    /\ Returns
    /\ emitted' = <<>>
    /\ last' = [op |-> "disconnect", conn |-> c]
    /\ UNCHANGED <<sub, rooms, joinRun, inbox, handled, errors>>

\* socket.on('disconnect'): socket.io has removed the closing socket from
\* every room before the handler runs
OnDisconnect(c) ==
    /\ Ready /\ status[c] = "connected"
    /\ status' = [status EXCEPT ![c] = "closed"]
    /\ rooms' = [r \in Rooms |-> RemoveMember(rooms[r], c)]
    /\ joinRun' = [joinRun EXCEPT ![c] = [r \in Rooms |-> 0]]
    /\ Returns
    /\ emitted' = <<>>
    /\ last' = [op |-> "disconnect", conn |-> c]
    /\ UNCHANGED <<sub, inbox, handled, errors>>

\* new Date() is evaluated on the inventory-alerts branch only
ClockReads(channel) == IF channel = "inventory-alerts" THEN 0..MaxTime ELSE {0}

Next ==
    \/ SubscribeOk
    \/ SubscribeFail
    \/ \E channel \in Channels, message \in RawMessages :
          \E t \in ClockReads(channel) : OnMessage(channel, message, t)
    \/ \E c \in Ids : OnConnection(c)
    \/ \E c \in Ids, room \in Rooms : OnJoin(c, room)
    \/ \E c \in Ids, room \in Rooms : OnLeave(c, room)
    \/ \E c \in Ids : OnDisconnect(c)

Spec == Init /\ [][Next]_vars

\* ------------------------------------------------- vocabulary of the claims
KnownChannels == {"inventory", "inventory-alerts"}

TargetRoom(channel) ==
    IF channel = "inventory" THEN "inventory-updates" ELSE "inventory-alerts"

EventName(channel) ==
    IF channel = "inventory" THEN "inventory-update" ELSE "inventory-alert"

\* the callback that ran last handled a broker message
MessageHandled == last.op = "message"

\* the raw messages that lead to an event on the channel: every JSON text
\* but null on inventory-alerts
ProducesEvent(channel, message) ==
    /\ channel \in KnownChannels
    /\ \/ message \in ObjectMessages
       \/ message \in ScalarMessages /\ (channel = "inventory" \/ message # RawNull)

\* number of packets of broker message seq in a socket's inbox
Copies(box, seq, name) ==
    Cardinality({i \in 1..Len(box) : box[i].seq = seq /\ box[i].name = name})

\* the keys written in the text of a flat JSON object, and the value written
\* last for a key, read off the token positions
KeyPositions(toks) ==
    {i \in 1..Len(toks) : i % 4 = 2 /\ i + 2 <= Len(toks) /\ toks[i].tok = "string"}
KeysIn(toks) == {toks[i].s : i \in KeyPositions(toks)}
ValueIn(toks, k) ==
    LET at == {i \in KeyPositions(toks) : toks[i].s = k}
        i  == CHOOSE j \in at : \A h \in at : h <= j
    IN  ScalarValue(toks[i + 2])
Written(toks) == Obj([k \in KeysIn(toks) |-> ValueIn(toks, k)])

AlertHandled == MessageHandled /\ last.channel = "inventory-alerts"

\* ------------------------------------------------------------------ claims

\* C1: for a message on a known channel that leads to an event, every
\* connected client gets exactly 2 copies of the event if it is in the
\* channel's target room when the message is handled, and exactly 1 otherwise.
C1_CopiesPerClient ==
    (MessageHandled /\ ProducesEvent(last.channel, last.message)) =>
        \A c \in Connected :
            Copies(inbox[c], last.seq, EventName(last.channel)) =
                IF c \in rooms[TargetRoom(last.channel)] THEN 2 ELSE 1

C1_Witness ==
    /\ MessageHandled /\ last.channel = "inventory-alerts" /\ last.message = RawCounts
    /\ \E c, d \in Connected :
        /\ c \in rooms["inventory-alerts"]
        /\ Copies(inbox[c], last.seq, "inventory-alert") = 2
        /\ \A r \in Rooms : d \notin rooms[r] /\ joinRun[d][r] = 0
        /\ Copies(inbox[d], last.seq, "inventory-alert") = 1

\* C2: a JSON object on channel inventory causes exactly two emissions, both
\* named inventory-update, the first to everyone and the second to room
\* inventory-updates, both carrying exactly the fields written in the message.
C2_UpdatePassthrough ==
    (MessageHandled /\ last.channel = "inventory" /\ last.message \in ObjectMessages) =>
        emitted = <<Emission("inventory-update", Everyone, Written(last.message)),
                    Emission("inventory-update", "inventory-updates", Written(last.message))>>

C2_Witness ==
    /\ MessageHandled /\ last.channel = "inventory" /\ last.message = RawItem
    /\ Len(emitted) = 2
    /\ emitted[1].payload = Obj(("sku" :> Str("A1")) @@ ("qty" :> Num(5)))
    /\ emitted[2].payload = emitted[1].payload

\* C3: handling a malformed payload emits nothing, delivers nothing, changes
\* no membership, no connection and not the subscription, and leaves the
\* process alive; a message that leads to an event and is handled after a
\* malformed one is delivered with the usual number of copies.
C3_MalformedDropped ==
    [][/\ (handled' = handled + 1 /\ last'.message \in MalformedMessages) =>
            /\ emitted' = <<>>
            /\ inbox' = inbox
            /\ rooms' = rooms
            /\ status' = status
            /\ sub' = sub
            /\ alive'
       /\ (handled' = handled + 1 /\ errors >= 1
           /\ ProducesEvent(last'.channel, last'.message)) =>
            /\ Len(emitted') = 2
            /\ \A c \in Connected :
                Copies(inbox'[c], handled', EventName(last'.channel)) =
                    IF c \in rooms[TargetRoom(last'.channel)] THEN 2 ELSE 1
      ]_vars

C3_Witness ==
    /\ MessageHandled /\ last.seq = 2 /\ errors = 1
    /\ last.channel = "inventory" /\ last.message = RawItem
    /\ alive
    /\ \E c \in Connected :
        /\ c \in rooms["inventory-updates"]
        /\ Len(inbox[c]) = 2
        /\ Copies(inbox[c], 2, "inventory-update") = 2

\* C4: in both emissions of an inventory-alerts message every field written
\* in the payload has the value written there, type included.
C4_PayloadWins ==
    (AlertHandled /\ last.message \in ObjectMessages) =>
        /\ Len(emitted) = 2
        /\ \A i \in 1..2 : \A k \in KeysIn(last.message) :
            /\ k \in DOMAIN emitted[i].payload.f
            /\ emitted[i].payload.f[k] = ValueIn(last.message, k)

C4_Witness ==
    /\ AlertHandled /\ last.message = RawCustom
    /\ Len(emitted) = 2
    /\ emitted[1].payload.f["severity"] = Str("critical")
    /\ emitted[1].payload.f["type"] = Str("custom")

\* C5: an inventory-alerts payload without message, severity, timestamp and
\* type is emitted with the default message, severity and type and with the
\* time of the enrichment as timestamp; current_count and threshold are the
\* payload's, and undefined when the payload has none.
C5_DefaultsFill ==
    (/\ AlertHandled /\ ProducesEvent(last.channel, last.message)
     /\ KeysIn(last.message) \cap {"message", "severity", "timestamp", "type"} = {}) =>
        /\ Len(emitted) = 2
        /\ \A i \in 1..2 :
            LET f == emitted[i].payload.f IN
            /\ f["message"] = Str("Item count exceeded the limit.")
            /\ f["severity"] = Str("warning")
            /\ f["type"] = Str("count_exceeded")
            /\ f["timestamp"] = toISOString(last.at)
            /\ \A k \in {"current_count", "threshold"} :
                f[k] = IF k \in KeysIn(last.message)
                       THEN ValueIn(last.message, k) ELSE Undefined

C5_Witness ==
    /\ AlertHandled /\ last.message = RawCounts /\ last.at = 1
    /\ Len(emitted) = 2
    /\ emitted[1].payload.f["timestamp"] = Str("1970-01-01T00:00:00.001Z")
    /\ emitted[1].payload.f["current_count"] = Num(150)
    /\ emitted[1].payload.f["threshold"] = Num(100)
    /\ emitted[1].payload.f["severity"] = Str("warning")

\* the default the handler computes for a field
DefaultOf(k, t) ==
    CASE k = "message"   -> Str("Item count exceeded the limit.")
      [] k = "severity"  -> Str("warning")
      [] k = "timestamp" -> toISOString(t)

\* the message, severity and timestamp fields written with a falsy value
FalsyFields(toks) ==
    {k \in KeysIn(toks) \cap {"message", "severity", "timestamp"} : Falsy(ValueIn(toks, k))}

\* C6 as stated: a message, severity or timestamp written with a falsy value
\* is emitted with the default of the field.
C6_FalsyGetsDefault ==
    (AlertHandled /\ last.message \in ObjectMessages) =>
        \A i \in 1..Len(emitted) : \A k \in FalsyFields(last.message) :
            emitted[i].payload.f[k] = DefaultOf(k, last.at)

\* C6 as amended: a message, severity or timestamp written with a falsy
\* value is emitted with that falsy value, because the payload is overlaid
\* on the defaults; the default is emitted only for a field the payload lacks.
C6_FalsyKept ==
    (AlertHandled /\ last.message \in ObjectMessages) =>
        /\ Len(emitted) = 2
        /\ \A i \in 1..2 :
            /\ \A k \in FalsyFields(last.message) :
                /\ emitted[i].payload.f[k] = ValueIn(last.message, k)
                /\ emitted[i].payload.f[k] # DefaultOf(k, last.at)
            /\ \A k \in {"message", "severity", "timestamp"} \ KeysIn(last.message) :
                emitted[i].payload.f[k] = DefaultOf(k, last.at)

C6_Witness ==
    /\ AlertHandled /\ last.message = RawFalsy
    /\ Len(emitted) = 2
    /\ emitted[1].payload.f["severity"] = Str("")
    /\ emitted[1].payload.f["message"] = Null
    /\ emitted[1].payload.f["timestamp"] = Num(0)

\* C7: a leave that follows two or more joins of the same room in a row ends
\* the membership, and a client whose last two or more requests for a room
\* were joins gets exactly 2 copies of a message of that room's channel.
C7_JoinIdempotent ==
    /\ (last.op = "leave" /\ last.run >= 2) => last.conn \notin rooms[last.room]
    /\ (MessageHandled /\ ProducesEvent(last.channel, last.message)) =>
        \A c \in Connected :
            joinRun[c][TargetRoom(last.channel)] >= 2 =>
                Copies(inbox[c], last.seq, EventName(last.channel)) = 2
    /\ \A c \in Ids, r \in Rooms : joinRun[c][r] >= 1 => c \in rooms[r]

C7_Witness ==
    /\ last.op = "leave" /\ last.run = 2 /\ last.room = "inventory-alerts"
    /\ last.conn \notin rooms["inventory-alerts"]
    /\ handled = 1
    /\ Len(inbox[last.conn]) = 2
    /\ Copies(inbox[last.conn], 1, "inventory-alert") = 2

\* C8: a socket that is not connected is in no room, so a socket that has
\* just connected is in none; and nothing is written to a closed socket.
C8_DisconnectDiscards ==
    [][\A c \in Ids :
        /\ status'[c] # "connected" => \A r \in Rooms : c \notin rooms'[r]
        /\ (last'.op = "connect" /\ last'.conn = c) => \A r \in Rooms : c \notin rooms'[r]
        /\ status[c] = "closed" => (inbox'[c] = inbox[c] /\ status'[c] = "closed")
      ]_vars

C8_Witness ==
    /\ MessageHandled /\ last.seq = 2 /\ ProducesEvent(last.channel, last.message)
    /\ \E c \in Ids :
        /\ status[c] = "closed"
        /\ Copies(inbox[c], 1, EventName(last.channel)) = 2
        /\ Len(inbox[c]) = 2
        /\ \A r \in Rooms : c \notin rooms[r]

\* C9: the membership of connection c in room r changes only in a join or
\* leave of r by c or in the disconnect of c; handling a broker message
\* changes no membership.
C9_MembershipFrame ==
    [][/\ handled' # handled => rooms' = rooms
       /\ \A c \in Ids, r \in Rooms :
            ((c \in rooms'[r]) # (c \in rooms[r])) =>
                /\ last'.op \in {"join", "leave", "disconnect"}
                /\ last'.conn = c
                /\ last'.op # "disconnect" => last'.room = r
      ]_vars

C9_Witness ==
    /\ last.op = "leave" /\ last.conn = 1 /\ last.room = "inventory-alerts"
    /\ last.run >= 1
    /\ 2 \in rooms["inventory-alerts"]
    /\ 1 \in rooms["inventory-updates"]
    /\ 1 \notin rooms["inventory-alerts"]

\* C10: in every inbox the packets of one event name appear in the order in
\* which the broker messages were handled.
C10_ChannelOrder ==
    \A c \in Ids : \A i, j \in 1..Len(inbox[c]) :
        (i < j /\ inbox[c][i].name = inbox[c][j].name) =>
            inbox[c][i].seq <= inbox[c][j].seq

C10_Witness ==
    \E c \in Connected :
        /\ Len(inbox[c]) = 4
        /\ \A i \in 1..4 : inbox[c][i].name = "inventory-update"
        /\ inbox[c][2].seq = 1
        /\ inbox[c][3].seq = 2

\* the requests a client can make in the current state are all accepted
ClientRequestsEnabled ==
    /\ (\E c \in Ids : status[c] = "unused") => ENABLED (\E c \in Ids : OnConnection(c))
    /\ \A c \in Connected :
        /\ ENABLED OnDisconnect(c)
        /\ \A r \in Rooms : ENABLED OnJoin(c, r) /\ ENABLED OnLeave(c, r)

\* C11: the outcome of the one subscribe call is final (no retry); once it
\* has failed the failure has been logged, the process is alive, no broker
\* message is ever handled and no packet is ever written, while connect,
\* join, leave and disconnect are still accepted.
C11_SubscribeFailure ==
    [][/\ sub # "pending" => sub' = sub
       /\ sub' = "failed" =>
            /\ alive'
            /\ errors' = 1
            /\ handled' = 0
            /\ emitted' = <<>>
            /\ \A c \in Ids : inbox'[c] = <<>>
       /\ sub = "failed" => ClientRequestsEnabled
      ]_vars

C11_Witness ==
    /\ sub = "failed" /\ alive /\ errors = 1 /\ handled = 0
    /\ last.op = "disconnect"
    /\ \E d \in Connected, r \in Rooms : d \in rooms[r] /\ inbox[d] = <<>>

\* the sockets that hold a packet of broker message seq sent to target `to`
Holders(seq, to) ==
    {c \in Ids : \E i \in 1..Len(inbox[c]) : inbox[c][i].seq = seq /\ inbox[c][i].to = to}

\* C12: the two emissions of one message see the same state: the sockets
\* holding the global copy are exactly the connected ones, the sockets
\* holding the room copy are exactly the target room's members, and nobody
\* holds a room copy without the global copy.
C12_DispatchAtomic ==
    (MessageHandled /\ ProducesEvent(last.channel, last.message)) =>
        /\ Holders(last.seq, Everyone) = Connected
        /\ Holders(last.seq, TargetRoom(last.channel)) = rooms[TargetRoom(last.channel)]
        /\ Holders(last.seq, TargetRoom(last.channel)) \subseteq Holders(last.seq, Everyone)

C12_Witness ==
    /\ MessageHandled /\ last.channel = "inventory" /\ last.message = RawItem
    /\ Cardinality(Connected) = 2
    /\ Holders(last.seq, Everyone) = Connected
    /\ Cardinality(Holders(last.seq, "inventory-updates")) = 1

OtherRoom(channel) ==
    IF channel = "inventory" THEN "inventory-alerts" ELSE "inventory-updates"

\* C13: a message on inventory causes only inventory-update emissions, to
\* everyone and to room inventory-updates; a message on inventory-alerts
\* only inventory-alert emissions, to everyone and to room inventory-alerts;
\* a connected client that is in the other room only holds exactly one
\* packet of the message, the global one.
C13_OneNameOneRoom ==
    (MessageHandled /\ last.channel \in KnownChannels) =>
        /\ \A i \in 1..Len(emitted) :
            /\ emitted[i].name = EventName(last.channel)
            /\ emitted[i].to \in {Everyone, TargetRoom(last.channel)}
        /\ Holders(last.seq, OtherRoom(last.channel)) = {}
        /\ ProducesEvent(last.channel, last.message) =>
            \A c \in Connected :
                (c \in rooms[OtherRoom(last.channel)]
                 /\ c \notin rooms[TargetRoom(last.channel)]) =>
                    /\ Copies(inbox[c], last.seq, EventName(last.channel)) = 1
                    /\ Cardinality({i \in 1..Len(inbox[c]) : inbox[c][i].seq = last.seq}) = 1

C13_Witness ==
    /\ AlertHandled /\ last.message = RawCustom
    /\ \E c \in Connected :
        /\ c \in rooms["inventory-updates"] /\ c \notin rooms["inventory-alerts"]
        /\ inbox[c] = <<[seq |-> last.seq, name |-> "inventory-alert", to |-> Everyone]>>

\* C14: the two emissions of an inventory-alerts message have the name
\* inventory-alert and carry the same record, timestamp included; a
\* timestamp the payload lacks is the one time read during the handling.
C14_SameAlertRecord ==
    (AlertHandled /\ ProducesEvent(last.channel, last.message)) =>
        /\ Len(emitted) = 2
        /\ emitted[1].name = "inventory-alert" /\ emitted[2].name = "inventory-alert"
        /\ emitted[1].payload = emitted[2].payload
        /\ "timestamp" \notin KeysIn(last.message) =>
            /\ emitted[1].payload.f["timestamp"] = toISOString(last.at)
            /\ emitted[2].payload.f["timestamp"] = toISOString(last.at)

C14_Witness ==
    /\ AlertHandled /\ last.message = RawCustom /\ last.at = 1
    /\ Len(emitted) = 2
    /\ emitted[1].to = Everyone /\ emitted[2].to = "inventory-alerts"
    /\ emitted[1].payload.f["timestamp"] = Str("1970-01-01T00:00:00.001Z")
    /\ emitted[2].payload.f["timestamp"] = Str("1970-01-01T00:00:00.001Z")

\* C15: handling a JSON text that arrives on a channel other than inventory
\* and inventory-alerts makes no emission, writes no packet and changes
\* nothing else of the state.
C15_UnknownChannelIgnored ==
    [][(/\ handled' = handled + 1
        /\ last'.channel \notin KnownChannels
        /\ last'.message \notin MalformedMessages) =>
            /\ emitted' = <<>>
            /\ inbox' = inbox
            /\ rooms' = rooms
            /\ status' = status
            /\ sub' = sub
            /\ alive' = alive
            /\ errors' = errors
      ]_vars

C15_Witness ==
    /\ MessageHandled /\ last.channel = "orders" /\ last.message = RawItem
    /\ emitted = <<>> /\ errors = 0
    /\ \E c \in Connected :
        /\ \A r \in Rooms : c \in rooms[r]
        /\ inbox[c] = <<>>

\* C16: a leave of a room the socket is not in changes no membership, no
\* connection and no inbox, so the recipients of every later emission are
\* the ones they would have been without it.
C16_LeaveNonMember ==
    [][(last'.op = "leave" /\ last'.conn \notin rooms[last'.room]) =>
            /\ rooms' = rooms
            /\ status' = status
            /\ inbox' = inbox
            /\ sub' = sub
            /\ alive' = alive
      ]_vars

C16_Witness ==
    /\ last.op = "leave" /\ last.run = 0
    /\ \E r \in Rooms \ {last.room} : last.conn \in rooms[r]
    /\ \E d \in Connected : d # last.conn /\ d \in rooms[last.room]

\* C17: packets are written only while their own message is handled: a
\* step that handles no message leaves every inbox as it is (a connect or a
\* join brings no earlier message), a step that handles message n only
\* appends packets of n, and appends exactly the global packet for a
\* connected socket that is not in the target room then.
C17_NoReplay ==
    [][/\ handled' = handled => inbox' = inbox
       /\ handled' = handled + 1 =>
            \A c \in Ids :
                /\ Len(inbox'[c]) >= Len(inbox[c])
                /\ SubSeq(inbox'[c], 1, Len(inbox[c])) = inbox[c]
                /\ \A i \in (Len(inbox[c]) + 1)..Len(inbox'[c]) :
                    inbox'[c][i].seq = handled'
                /\ (/\ ProducesEvent(last'.channel, last'.message)
                    /\ c \in Connected
                    /\ c \notin rooms[TargetRoom(last'.channel)]) =>
                        inbox'[c] = Append(inbox[c],
                            [seq |-> handled', name |-> EventName(last'.channel),
                             to |-> Everyone])
      ]_vars

C17_Witness ==
    /\ last.op = "join" /\ handled = 1
    /\ inbox[last.conn] = <<>>
    /\ last.conn \in rooms[last.room]
    /\ \E d \in Connected : d < last.conn /\ Len(inbox[d]) = 1 /\ inbox[d][1].seq = 1

\* C18: a handling pass makes no emission or exactly two, the first to
\* everyone and the second to the channel's room under the same name; a
\* pass whose enrichment fails (null on inventory-alerts) makes none.
C18_ZeroOrTwo ==
    MessageHandled =>
        /\ \/ emitted = <<>>
           \/ /\ Len(emitted) = 2
              /\ emitted[1].to = Everyone
              /\ emitted[2].to = TargetRoom(last.channel)
              /\ emitted[1].name = emitted[2].name
        /\ (last.channel = "inventory-alerts" /\ last.message = RawNull) =>
            emitted = <<>>
        /\ \A c \in Ids :
            Cardinality({i \in 1..Len(inbox[c]) : inbox[c][i].seq = last.seq}) \in
                (IF emitted = <<>> THEN {0} ELSE {0, 1, 2})

C18_Witness ==
    /\ AlertHandled /\ last.message = RawNull /\ last.seq = 1
    /\ emitted = <<>> /\ errors = 1 /\ alive
    /\ \E c \in Connected : c \in rooms["inventory-alerts"] /\ inbox[c] = <<>>

\* C19: the JSON value null on inventory-alerts is caught like a decode
\* failure (an error is logged, nothing is emitted or written, the process
\* stays alive); on inventory it is emitted twice as inventory-update with
\* payload null.
C19_NullPerChannel ==
    (MessageHandled /\ last.message = RawNull) =>
        /\ last.channel = "inventory-alerts" =>
            /\ emitted = <<>>
            /\ errors >= 1
            /\ alive
            /\ Holders(last.seq, Everyone) = {}
            /\ Holders(last.seq, "inventory-alerts") = {}
        /\ last.channel = "inventory" =>
            /\ emitted = <<Emission("inventory-update", Everyone, Null),
                           Emission("inventory-update", "inventory-updates", Null)>>
            /\ \A c \in Connected :
                Copies(inbox[c], last.seq, "inventory-update") =
                    IF c \in rooms["inventory-updates"] THEN 2 ELSE 1

C19_Witness ==
    /\ MessageHandled /\ last.message = RawNull /\ last.channel = "inventory"
    /\ last.seq = 2 /\ errors = 1 /\ alive
    /\ Len(emitted) = 2 /\ emitted[1].payload = Null
    /\ \E c \in Connected :
        /\ \A r \in Rooms : c \in rooms[r]
        /\ Len(inbox[c]) = 2
        /\ Copies(inbox[c], 2, "inventory-update") = 2

====
